---- MODULE Spec2Model ----
(***************************************************************************)
(* Model of the key-value memory of src/memory.py (class Memory).          *)
(*                                                                         *)
(* Representation.  key_dim is 2, so a unit key is a direction on the      *)
(* circle, held as an integer angle in 0..FullTurn-1; the zero vector      *)
(* (what F.normalize returns for a vector of norm 0) is NoDir.  Queries    *)
(* and initial keys lie on the axes, and one blend halves an angle, so     *)
(* after at most MaxCalls query calls every key is still on the grid.      *)
(* Similarities and the loss are fixed-point numbers with Scale units      *)
(* per 1.0.  The tensor semantics are those of the PyTorch the file was    *)
(* written for (Variable API): a tensor has at least one dimension, and    *)
(* torch.nonzero of an all-zero mask is the tensor with no dimension.      *)
(***************************************************************************)
EXTENDS Integers, Sequences, FiniteSets, TLC

\* ---- bounds of the model ------------------------------------------------
MaxMem == 2
MaxBatch == 2
MaxCalls == 2
NumLabels == 2
MaxAgeNoise == 1
LongRunCalls == 4

\* ---- constants of the program and of the representation -------------------
Scale == 1000
margin == 100
TopKRequests == {1, 3}
Labels == 0 .. (NumLabels - 1)

RECURSIVE Pow2(_)
Pow2(n) == IF n = 0 THEN 1 ELSE 2 * Pow2(n - 1)

QuarterTurn == Pow2(MaxCalls)
HalfTurn == 2 * QuarterTurn
FullTurn == 4 * QuarterTurn
NoDir == -1

\* Raw (un-normalized) input vectors of key_dim 2, and the initial keys' raws.
X == { <<1, 0>>, <<0, 2>> }
InitRaw == { <<1, 0>>, <<-1, 0>> }

VARIABLES memory_size, top_k_arg, top_k, age_noise, keys, values, age, calls,
          completed, steps, streak, prev, last

vars == <<memory_size, top_k_arg, top_k, age_noise, keys, values, age, calls,
          completed, steps, streak, prev, last>>

Slots == 1 .. memory_size

\* ---- vector operations ---------------------------------------------------
Axis(a) ==
    CASE a = 0 -> <<1, 0>>
      [] a = QuarterTurn -> <<0, 1>>
      [] a = HalfTurn -> <<-1, 0>>
      [] OTHER -> <<0, -1>>

AxisDirs == { 0, QuarterTurn, HalfTurn, 3 * QuarterTurn }

\* F.normalize(v, dim=1): v / max(||v||, eps); the direction of v, or the
\* zero vector when v is zero.
normalize(v) ==
    IF v = <<0, 0>> THEN NoDir
    ELSE CHOOSE a \in AxisDirs :
            /\ v[1] * Axis(a)[2] = v[2] * Axis(a)[1]
            /\ v[1] * Axis(a)[1] + v[2] * Axis(a)[2] > 0

Norm(k) == IF k = NoDir THEN 0 ELSE 1

ArcDist(a, b) ==
    LET d == (a - b + FullTurn) % FullTurn
    IN IF d > HalfTurn THEN FullTurn - d ELSE d

\* cosine of an arc of d grid steps, in fixed point (Bhaskara's rational
\* form: exact at 0, 60, 90, 120 and 180 degrees, strictly decreasing).
Cos(d) ==
    LET c(e) == (Scale * 4 * (QuarterTurn * QuarterTurn - e * e))
                    \div (4 * QuarterTurn * QuarterTurn + e * e)
    IN IF d <= QuarterTurn THEN c(d) ELSE 0 - c(HalfTurn - d)

\* one entry of torch.matmul(query, torch.t(keys))
Dot(qd, k) == IF qd = NoDir \/ k = NoDir THEN 0 ELSE Cos(ArcDist(qd, k))

\* Blend with the query subtracted instead of added
BlendSubtracting(k, qd) ==
    LET o == IF qd = NoDir THEN NoDir ELSE (qd + HalfTurn) % FullTurn
    IN IF k = NoDir THEN o
       ELSE IF o = NoDir THEN k
       ELSE IF ArcDist(k, o) = HalfTurn THEN NoDir
       ELSE LET d == (o - k + FullTurn) % FullTurn
            IN IF d < HalfTurn
               THEN (k + (d \div 2)) % FullTurn
               ELSE (o + ((FullTurn - d) \div 2)) % FullTurn

\* F.normalize(correct_keys + correct_query, dim=1) for one row
Blend(k, qd) ==
    IF k = NoDir THEN qd
    ELSE IF qd = NoDir THEN k
    ELSE IF ArcDist(k, qd) = HalfTurn THEN NoDir
    ELSE LET d == (qd - k + FullTurn) % FullTurn
         IN IF d < HalfTurn
            THEN (k + (d \div 2)) % FullTurn
            ELSE (qd + ((FullTurn - d) \div 2)) % FullTurn

\* ---- torch.topk ------------------------------------------------------------
Injective(s) == \A i, j \in DOMAIN s : i # j => s[i] # s[j]

\* The index sequences torch.topk(score, k) may return: k distinct indices,
\* scores descending, nothing left out that beats the last one; the order
\* among equal scores is the primitive's.
topk(score, k) ==
    { s \in [1 .. k -> DOMAIN score] :
        /\ Injective(s)
        /\ \A i \in 1 .. (k - 1) : score[s[i]] >= score[s[i + 1]]
        /\ \A j \in DOMAIN score :
              (\A i \in 1 .. k : s[i] # j) => score[j] <= score[s[k]] }

RECURSIVE SeqSum(_)
SeqSum(s) == IF s = <<>> THEN 0 ELSE s[1] + SeqSum(Tail(s))

SeqMax(s) == CHOOSE m \in { s[i] : i \in DOMAIN s } : \A i \in DOMAIN s : s[i] <= m

\* ---- construction ----------------------------------------------------------
\* ClampTopK with the clamp forgotten
ClampTopKDropped(req, size) == req

\* self.top_k = min(top_k, memory_size)
ClampTopK(req, size) == IF req < size THEN req ELSE size

\* what a predict call's record keeps of the call before it: whether that was
\* a completed query of one row that missed, and if so its row
NoMiss == [miss |-> FALSE, x |-> <<>>, y |-> <<>>]

Summary(c) ==
    IF c.op = "query" /\ c.status = "ok" /\ Len(c.x) = 1 /\ c.result = <<FALSE>>
    THEN [miss |-> TRUE, x |-> c.x, y |-> c.y]
    ELSE NoMiss

NoCall == [op |-> "init", after |-> NoMiss, status |-> "ok", x |-> <<>>, q |-> <<>>, y |-> <<>>,
           predict |-> FALSE, topk_indices |-> <<>>, cosine_similarity |-> <<>>,
           softmax_score |-> <<>>,
           y_hat_indices |-> <<>>, y_hat |-> <<>>, pos_score |-> <<>>,
           neg_score |-> <<>>, loss |-> <<>>, result |-> <<>>, oldest_indices |-> <<>>]

Init ==
    /\ memory_size \in 1 .. MaxMem
    /\ top_k_arg \in TopKRequests
    /\ top_k = ClampTopK(top_k_arg, memory_size)
    /\ age_noise \in 0 .. MaxAgeNoise
    /\ keys \in [1 .. memory_size -> { normalize(v) : v \in InitRaw }]
    /\ values = [s \in 1 .. memory_size |-> 0]
    /\ age = [s \in 1 .. memory_size |-> 0]
    /\ calls = 0
    /\ completed = 0
    /\ steps = 0
    /\ streak = [s \in 1 .. memory_size |-> [n |-> 0, from |-> 0]]
    /\ prev = [keys |-> keys, values |-> values, age |-> age]
    /\ last = NoCall

\* ---- random_uniform --------------------------------------------------------
\* random_uniform with the width of the range doubled
random_uniform_doubled(n, low, high) ==
    [1 .. n -> IF high > low THEN (2 * low) .. (2 * high - 1) ELSE {low}]

\* (high - low) * torch.rand(n) + low: n draws from [low, high).  Only the
\* order of age + noise is used, and the orders real draws from [low, high)
\* can produce are those of integer draws from low .. high-1 with free ties.
random_uniform(n, low, high) ==
    [1 .. n -> IF high > low THEN low .. (high - 1) ELSE {low}]

\* ---- MemoryLoss ------------------------------------------------------------
\* Clamp with the lower bound forgotten
ClampDropped(v, min) == v

Clamp(v, min) == IF v < min THEN min ELSE v

MemoryLoss(positive, negative, m) ==
    LET dist_hinge == [i \in DOMAIN positive |->
                          Clamp(negative[i] - positive[i] + m, 0)]
    IN SeqSum(dist_hinge) \div Len(dist_hinge)

\* ---- nearest-neighbour search (shared by predict and query) ----------------
\* st is the store the call reads: [keys, values, age].
Scores(st, qd) == [s \in Slots |-> Dot(qd, st.keys[s])]

\* The top_k index rows torch.topk(scores, self.top_k, dim=1) may return for
\* the batch q, one row per query.
RECURSIVE TopkRows(_, _)
TopkRows(st, q) ==
    IF q = <<>> THEN { <<>> }
    ELSE { <<h>> \o t : h \in topk(Scores(st, Head(q)), top_k),
                        t \in TopkRows(st, Tail(q)) }

CosineSimilarity(st, q, tk) ==
    [i \in DOMAIN q |-> [j \in 1 .. top_k |-> Dot(q[i], st.keys[tk[i][j]])]]

YHatIndices(tk) == [i \in DOMAIN tk |-> tk[i][1]]

YHat(st, idx) == [i \in DOMAIN idx |-> st.values[idx[i]]]

\* correct_mask[i][j] = 1.0 where the j-th candidate of row i holds label y[i]
CorrectMask(st, tk, y) ==
    [i \in DOMAIN tk |-> [j \in 1 .. top_k |->
        IF st.values[tk[i][j]] = y[i] THEN 1 ELSE 0]]

\* torch.topk(torch.mul(cosine_similarity, correct_mask), 1, dim=1)
PosScore(cs, mask) ==
    [i \in DOMAIN cs |-> SeqMax([j \in 1 .. top_k |-> cs[i][j] * mask[i][j]])]

\* torch.topk(torch.mul(cosine_similarity, 1 - correct_mask), 1, dim=1)
NegScore(cs, mask) ==
    [i \in DOMAIN cs |-> SeqMax([j \in 1 .. top_k |-> cs[i][j] * (1 - mask[i][j])])]

\* self.softmax_temperature = max(1.0, math.log(0.2 * top_k) / inverse_temp):
\* 1.0 unless 0.2 * top_k exceeds e^inverse_temp (inverse_temp is 40.0)
softmax_temperature == 1

\* exp(v / Scale) in fixed point, for v in -Scale .. Scale: the rational
\* (2 + t) / (2 - t), positive and increasing like exp
Exp(v) == (Scale * (2 * Scale + v)) \div (2 * Scale - v)

\* F.softmax(self.softmax_temperature * cosine_similarity): each row divided
\* by its sum of exponentials
Softmax(cs) ==
    [i \in DOMAIN cs |->
        LET e == [j \in DOMAIN cs[i] |-> Exp(softmax_temperature * cs[i][j])]
        IN [j \in DOMAIN cs[i] |-> (Scale * e[j]) \div SeqSum(e)]]

\* ---- update ------------------------------------------------------------------
\* Tick applied twice
TickTwice(a) == a + 2

\* Tick with the increment forgotten
TickDropped(a) == a

\* self.age += 1
Tick(a) == a + 1

\* torch.eq(y_hat, y) for one row
IsCorrect(yh, yy) == yh = yy

\* Nonempty as if an empty row set still had a dimension
NonemptyAlways(examples) == TRUE

\* len(examples.size()) > 0: the branch runs when the row set is not empty
Nonempty(examples) == examples # {}

\* the k of torch.topk(age_with_noise, batch_size, dim=0)
ReplaceCount(batch_size, m) == batch_size

\* the batch row written into the i-th selected slot:
\* self.keys[oldest_indices] = query.data pairs slot i with row i of the batch
ReplaceRow(i, incorrect_rows) == i

\* WriteKey with the assignment forgotten
WriteKeyDropped(old, new) == old

\* self.keys[oldest_indices] = query.data for one slot
WriteKey(old, new) == new

\* WriteValue with the assignment forgotten
WriteValueDropped(old, new) == old

\* self.values[oldest_indices] = y for one slot
WriteValue(old, new) == new

\* ResetAge with the reset forgotten
ResetAgeDropped(a) == a

\* self.age[oldest_indices] = 0 for one slot
ResetAge(a) == 0

IndexOf(seq, e) == CHOOSE i \in DOMAIN seq : seq[i] = e

Range(seq) == { seq[i] : i \in DOMAIN seq }

\* the ascending sequence of the elements of a set of row numbers
RECURSIVE SortedSeq(_)
SortedSeq(S) ==
    IF S = {} THEN <<>>
    ELSE LET m == CHOOSE e \in S : \A f \in S : e <= f
         IN <<m>> \o SortedSeq(S \ {m})

\* the orders torch.topk(age_with_noise, count, dim=0) may return
OldestChoices(a, count) ==
    UNION { topk([s \in Slots |-> a[s] + noise[s]], count) :
              noise \in random_uniform(memory_size, 0 - age_noise, age_noise) }

\* The outcomes of update(query, y, y_hat, y_hat_indices) on the store st:
\* one per draw of the noise, per order topk gives equal noisy ages and
\* per winner among rows blended into the same slot.
update(st, q, y, y_hat, y_hat_indices) ==
    LET batch_size == Len(q)
        age1 == [s \in Slots |-> Tick(st.age[s])]
        result == [i \in 1 .. batch_size |-> IsCorrect(y_hat[i], y[i])]
        incorrect_examples == { i \in 1 .. batch_size : ~result[i] }
        correct_examples == { i \in 1 .. batch_size : result[i] }
        incorrect == Nonempty(incorrect_examples)
        correct == Nonempty(correct_examples)
        correct_indices == IF correct
                           THEN { y_hat_indices[i] : i \in correct_examples }
                           ELSE {}
        Writers == { w \in [correct_indices -> correct_examples] :
                        \A s \in correct_indices : y_hat_indices[w[s]] = s }
        age2 == [s \in Slots |-> IF s \in correct_indices
                                  THEN ResetAge(age1[s]) ELSE age1[s]]
        count == ReplaceCount(batch_size, Cardinality(incorrect_examples))
        rows == SortedSeq(incorrect_examples)
        Outcome(k, v, a, stat, old) ==
            [keys |-> k, values |-> v, age |-> a, status |-> stat,
             result |-> result, oldest_indices |-> old]
        Replaced(k2, oldest) ==
            LET sel == Range(oldest)
                row == [s \in sel |-> ReplaceRow(IndexOf(oldest, s), rows)]
            IN Outcome([s \in Slots |-> IF s \in sel
                                         THEN WriteKey(k2[s], q[row[s]])
                                         ELSE k2[s]],
                       [s \in Slots |-> IF s \in sel
                                         THEN WriteValue(st.values[s], y[row[s]])
                                         ELSE st.values[s]],
                       [s \in Slots |-> IF s \in sel THEN ResetAge(age2[s]) ELSE age2[s]],
                       "ok", oldest)
        Replace(k2) ==
            IF ~incorrect THEN { Outcome(k2, st.values, age2, "ok", <<>>) }
            ELSE IF count > memory_size
                 THEN { Outcome(k2, st.values, age2, "error", <<>>) }
                 ELSE { Replaced(k2, oldest) : oldest \in OldestChoices(age2, count) }
    IN UNION { Replace([s \in Slots |-> IF s \in correct_indices
                                         THEN Blend(st.keys[s], q[w[s]])
                                         ELSE st.keys[s]]) : w \in Writers }

\* ---- the operations ------------------------------------------------------------
Batches == UNION { [1 .. b -> X] : b \in 1 .. MaxBatch }

LabelRows(b) == [1 .. b -> Labels]

Store == [keys |-> keys, values |-> values, age |-> age]

\* predict(self, x): the records of what it may compute and return on the
\* store st, called after the call recorded in before
PredictResults(st, before, x) ==
    LET q == [i \in DOMAIN x |-> normalize(x[i])]
    IN { [NoCall EXCEPT !.op = "predict", !.after = Summary(before), !.x = x, !.q = q,
             !.topk_indices = tk,
             !.cosine_similarity = CosineSimilarity(st, q, tk),
             !.softmax_score = Softmax(CosineSimilarity(st, q, tk)),
             !.y_hat_indices = YHatIndices(tk),
             !.y_hat = YHat(st, YHatIndices(tk))] : tk \in TopkRows(st, q) }

\* predict as if it ended with the global tick of update
predictTicking(x) ==
    /\ steps < MaxCalls
    /\ steps' = steps + 1
    /\ last' \in PredictResults(Store, last, x)
    /\ prev' = Store
    /\ age' = [s \in Slots |-> age[s] + 1]
    /\ UNCHANGED <<memory_size, top_k_arg, top_k, age_noise, keys, values, calls,
                   completed, streak>>

predict(x) ==
    /\ steps < MaxCalls
    /\ steps' = steps + 1
    /\ last' \in PredictResults(Store, last, x)
    /\ prev' = Store
    /\ UNCHANGED <<memory_size, top_k_arg, top_k, age_noise, keys, values, age, calls,
                   completed, streak>>

\* the loss of query: absent when predict is set
QueryLoss(pflag, pos, neg) ==
    IF pflag THEN <<>> ELSE << MemoryLoss(pos, neg, margin) >>

\* ReturnedYHat as if the labels were gathered after self.update
ReturnedYHatAfterUpdate(y_hat, values_after, y_hat_indices) ==
    [i \in DOMAIN y_hat_indices |-> values_after[y_hat_indices[i]]]

\* the y_hat of "return y_hat, softmax_score, loss": the one gathered from
\* self.values before self.update ran
ReturnedYHat(y_hat, values_after, y_hat_indices) == y_hat

\* RunsUpdate as if update sat inside the loss branch
RunsUpdateWithLossOnly(pflag) == ~pflag

\* whether query goes on to self.update(...)
RunsUpdate(pflag) == TRUE

\* query(self, x, y, predict) on the store st: the stores it may leave, each
\* with the record of what the call computed
QueryResults(st, x, y, pflag) ==
    LET q == [i \in DOMAIN x |-> normalize(x[i])]
        Called(tk) ==
            LET cs == CosineSimilarity(st, q, tk)
                mask == CorrectMask(st, tk, y)
                pos == PosScore(cs, mask)
                neg == NegScore(cs, mask)
            IN [NoCall EXCEPT !.op = "query", !.x = x, !.q = q, !.y = y,
                   !.predict = pflag, !.topk_indices = tk,
                   !.cosine_similarity = cs,
                   !.softmax_score = Softmax(cs),
                   !.y_hat_indices = YHatIndices(tk),
                   !.y_hat = YHat(st, YHatIndices(tk)),
                   !.pos_score = IF pflag THEN <<>> ELSE pos,
                   !.neg_score = IF pflag THEN <<>> ELSE neg,
                   !.loss = QueryLoss(pflag, pos, neg)]
        Updated(c) ==
            IF RunsUpdate(pflag)
            THEN { [keys |-> out.keys, values |-> out.values, age |-> out.age,
                    last |-> [c EXCEPT !.y_hat = ReturnedYHat(c.y_hat, out.values,
                                                                c.y_hat_indices),
                                 !.status = out.status, !.result = out.result,
                                 !.oldest_indices = out.oldest_indices]] :
                     out \in update(st, q, y, c.y_hat, c.y_hat_indices) }
            ELSE { [keys |-> st.keys, values |-> st.values, age |-> st.age, last |-> c] }
    IN UNION { Updated(Called(tk)) : tk \in TopkRows(st, q) }

\* the slots a call reset: top-1 matches of correct rows, and replaced slots
Touched(c) ==
    { c.y_hat_indices[i] : i \in { j \in DOMAIN c.result : c.result[j] } }
        \cup Range(c.oldest_indices)

\* one query call, whatever number of calls came before it
QueryStep(x, y, pflag) ==
    /\ steps' = steps + 1
    /\ \E r \in QueryResults(Store, x, y, pflag) :
          /\ keys' = r.keys
          /\ values' = r.values
          /\ age' = r.age
          /\ last' = r.last
          /\ completed' = IF r.last.status = "ok" THEN completed + 1 ELSE completed
          /\ streak' = [s \in Slots |->
                IF r.last.status = "ok" /\ s \notin Touched(r.last)
                THEN [streak[s] EXCEPT !.n = @ + 1]
                ELSE [n |-> 0, from |-> r.age[s]]]
    /\ calls' = calls + 1
    /\ prev' = Store
    /\ UNCHANGED <<memory_size, top_k_arg, top_k, age_noise>>

query(x, y, pflag) ==
    /\ steps < MaxCalls
    /\ QueryStep(x, y, pflag)

Next ==
    \/ \E x \in Batches : predict(x)
    \/ \E x \in Batches : \E y \in LabelRows(Len(x)) : \E pflag \in BOOLEAN :
          query(x, y, pflag)

Spec == Init /\ [][Next]_vars

\* ---- long runs of one repeated input ----------------------------------------
\* Ages beyond 2 * age_noise need more calls than MaxCalls.  These runs
\* repeat the one input (1, 0), on which every blend is exact at any depth
\* (the keys stay among (1, 0), (-1, 0) and the zero vector), with noise on.
LongRunBatches == UNION { [1 .. b -> {<<1, 0>>}] : b \in 1 .. MaxBatch }

InitLongRun == Init /\ age_noise = 1 /\ top_k_arg = 1

queryLongRun(x, y) ==
    /\ steps < LongRunCalls
    /\ QueryStep(x, y, TRUE)

NextLongRun ==
    \E x \in LongRunBatches : \E y \in LabelRows(Len(x)) : queryLongRun(x, y)

SpecLongRun == InitLongRun /\ [][NextLongRun]_vars

\* ---- properties ------------------------------------------------------------------
QueryDone == last.op = "query" /\ last.status = "ok"

IncorrectRows == SortedSeq({ i \in DOMAIN last.result : ~last.result[i] })

CorrectRows == { i \in DOMAIN last.result : last.result[i] }

Reinforced == { last.y_hat_indices[i] : i \in CorrectRows }

ReplacedSlots == Range(last.oldest_indices)

\* C1: in a completed query whose batch has m >= 1 incorrect rows, exactly m
\* slots are selected, and the i-th selected slot holds the normalized query
\* and the true label of the i-th incorrect row, with age 0.
C1_ReplacesIncorrectRowsOnly ==
    (QueryDone /\ Len(IncorrectRows) >= 1) =>
        /\ Len(last.oldest_indices) = Len(IncorrectRows)
        /\ \A i \in 1 .. Len(IncorrectRows) :
              /\ keys[last.oldest_indices[i]] = last.q[IncorrectRows[i]]
              /\ values[last.oldest_indices[i]] = last.y[IncorrectRows[i]]
              /\ age[last.oldest_indices[i]] = 0

\* C2: after a completed query every slot's age is its age before plus 1, or
\* 0; it is 0 only if the slot was the top-1 match of a correct row or was
\* selected for replacement.  A slot left alone by n consecutive completed
\* queries has aged by exactly n.
C2_AgeStep ==
    /\ QueryDone =>
          \A s \in Slots :
              /\ age[s] = prev.age[s] + 1 \/ age[s] = 0
              /\ age[s] = 0 => s \in Reinforced \cup ReplacedSlots
    /\ \A s \in Slots : age[s] = streak[s].from + streak[s].n

C2_Witness ==
    /\ QueryDone
    /\ \E s \in Slots : streak[s].n = 2 /\ age[s] = 2
    /\ \E s \in Slots : age[s] = 0

\* C3: predict leaves the keys, values and ages of all slots unchanged and
\* runs no update step (no partition, no selection, no loss).
C3_PredictReadOnly ==
    last.op = "predict" =>
        /\ keys = prev.keys /\ values = prev.values /\ age = prev.age
        /\ last.result = <<>> /\ last.oldest_indices = <<>> /\ last.loss = <<>>

C3_Witness ==
    /\ last.op = "predict" /\ Len(last.x) = 2
    /\ \E s \in Slots : age[s] > 0
    /\ \E s \in Slots : values[s] # 0

\* C4: the store a query leaves does not depend on whether the loss is
\* requested: the same call with the flag flipped, on the same store, with
\* the same top-k and noise outcomes, leaves the same keys, values and ages;
\* and the loss is absent exactly when it was not requested.
C4_UpdateRegardlessOfLoss ==
    last.op = "query" =>
        /\ (last.loss = <<>>) <=> last.predict
        /\ \E r \in QueryResults(prev, last.x, last.y, ~last.predict) :
              /\ r.keys = keys /\ r.values = values /\ r.age = age
              /\ r.last.status = last.status
              /\ r.last.topk_indices = last.topk_indices
              /\ r.last.oldest_indices = last.oldest_indices
              /\ r.last.y_hat = last.y_hat
              /\ (r.last.loss = <<>>) <=> ~last.predict

C4_Witness ==
    /\ QueryDone /\ last.predict /\ last.loss = <<>>
    /\ last.oldest_indices # <<>>
    /\ \E s \in Slots : values[s] # prev.values[s]

RecallCase ==
    /\ last.op = "predict" /\ last.after.miss /\ last.x = last.after.x

\* C5 as stated: after a one-row query that missed, predict on the same x
\* returns the row's label, in every reachable store.
C5_RecallAfterMiss ==
    RecallCase => last.y_hat[1] = last.after.y[1]

\* C5 as amended: ... provided no slot holds a key identical to the
\* normalized x with a label different from y.
C5_RecallAfterMissUnlessTie ==
    (RecallCase /\ \A s \in Slots : keys[s] = last.q[1] => values[s] = last.after.y[1])
        => last.y_hat[1] = last.after.y[1]

C5_Witness ==
    /\ RecallCase
    /\ \A s \in Slots : keys[s] = last.q[1] => values[s] = last.after.y[1]
    /\ \E s \in Slots : values[s] # last.after.y[1]
    /\ last.y_hat[1] = last.after.y[1]

\* C6: a query whose batch has m incorrect rows, 1 <= m <= capacity,
\* completes its replacement step, and the slots it overwrites are pairwise
\* distinct.
C6_EvictionDistinct ==
    (last.op = "query" /\ Len(IncorrectRows) >= 1 /\ Len(IncorrectRows) <= memory_size)
        => /\ last.status = "ok"
           /\ last.oldest_indices # <<>>
           /\ Injective(last.oldest_indices)

ZeroIncorrectSkips ==
    (last.op = "query" /\ IncorrectRows = <<>>) =>
        /\ last.status = "ok"
        /\ last.oldest_indices = <<>>
        /\ values = prev.values
        /\ \A s \in Slots \ Reinforced :
              keys[s] = prev.keys[s] /\ age[s] = prev.age[s] + 1

ZeroCorrectSkips ==
    /\ last.status = "ok"
    /\ \A s \in Slots \ ReplacedSlots :
          /\ keys[s] = prev.keys[s]
          /\ values[s] = prev.values[s]
          /\ age[s] = prev.age[s] + 1

\* C7 as stated: a query with zero incorrect rows performs no replacement,
\* one with zero correct rows performs no blending, and both complete
\* without error.
C7_DegeneratePartition ==
    /\ ZeroIncorrectSkips
    /\ (last.op = "query" /\ CorrectRows = {}) => ZeroCorrectSkips

\* C7 as amended: ... the call with zero correct rows completes without error
\* when its batch has at most capacity rows.
C7_DegeneratePartitionWithinCapacity ==
    /\ ZeroIncorrectSkips
    /\ (last.op = "query" /\ CorrectRows = {} /\ Len(last.x) <= memory_size)
          => ZeroCorrectSkips

C7_Witness ==
    /\ QueryDone /\ CorrectRows = {} /\ Len(last.x) = 2
    /\ \E s \in Slots : prev.values[s] # 0

MaxOver(S) == CHOOSE m \in S : \A v \in S : v <= m

Candidates(i, matching) ==
    { j \in 1 .. top_k :
        (prev.values[last.topk_indices[i][j]] = last.y[i]) = matching }

\* C8: when the loss is computed, positive_score[i] is the largest top-k
\* similarity among the candidates holding label y[i] and negative_score[i]
\* the largest among the others, whenever the candidate set is not empty.
C8_ScoresAreMaskedMaxima ==
    (last.op = "query" /\ ~last.predict) =>
        \A i \in DOMAIN last.x :
            /\ Candidates(i, TRUE) # {} =>
                  last.pos_score[i] =
                     MaxOver({ last.cosine_similarity[i][j] : j \in Candidates(i, TRUE) })
            /\ Candidates(i, FALSE) # {} =>
                  last.neg_score[i] =
                     MaxOver({ last.cosine_similarity[i][j] : j \in Candidates(i, FALSE) })

Hinge(i) ==
    LET d == last.neg_score[i] - last.pos_score[i] + margin
    IN IF d > 0 THEN d ELSE 0

\* margins other than the constructed one, for the loss of the same scores
Margins == { 0, margin, Scale, 2 * Scale }

\* C9: a computed loss is >= 0 and is the batch mean of
\* max(0, negative_score - positive_score + margin); the loss of the same
\* scores is >= 0 under every margin >= 0.
C9_LossNonNegative ==
    (QueryDone /\ ~last.predict) =>
        /\ Len(last.loss) = 1
        /\ last.loss[1] >= 0
        /\ last.loss[1] = SeqSum([i \in DOMAIN last.x |-> Hinge(i)]) \div Len(last.x)
        /\ \A m \in Margins : MemoryLoss(last.pos_score, last.neg_score, m) >= 0

C9_Witness ==
    /\ QueryDone /\ ~last.predict /\ Len(last.x) = 2
    /\ last.neg_score[1] - last.pos_score[1] + margin < 0
    /\ last.loss[1] > 0

\* C10: every slot's key has unit norm in every reachable state.
C10_KeysUnitNorm ==
    \A s \in Slots : Norm(keys[s]) = 1

\* the slots that held the row's own pair before a one-row query: key equal to
\* the normalized x, value equal to y
OwnSlots ==
    { s \in Slots : prev.keys[s] = last.q[1] /\ prev.values[s] = last.y[1] }

OneRowQuery == last.op = "query" /\ Len(last.x) = 1

\* C11 as stated: a one-row query (x, y) whose x equals the key of a slot s
\* holding y leaves s with age 0 and key x, and leaves every value unchanged;
\* so does every repetition of the call.
C11_ReinforcementFixedPoint ==
    OneRowQuery =>
        \A s \in OwnSlots :
            age[s] = 0 /\ keys[s] = last.q[1] /\ values = prev.values

\* C11 as amended: ... provided s is the only slot whose key equals x.
C11_ReinforcementFixedPointSoleKey ==
    OneRowQuery =>
        \A s \in OwnSlots :
            (\A t \in Slots \ {s} : prev.keys[t] # last.q[1]) =>
                /\ last.status = "ok" /\ last.result = <<TRUE>>
                /\ age[s] = 0 /\ keys[s] = last.q[1] /\ values = prev.values

\* the second of two such calls on a store of two slots
C11_Witness ==
    /\ OneRowQuery /\ calls = 2 /\ memory_size = 2
    /\ \E s \in OwnSlots :
          /\ \A t \in Slots \ {s} : prev.keys[t] # last.q[1]
          /\ prev.age[s] = 0 /\ prev.values[s] # 0
          /\ age[s] = 0 /\ keys[s] = prev.keys[s]

CallMade == last.op \in {"predict", "query"}

TopKIsClamped ==
    /\ top_k = (IF top_k_arg <= memory_size THEN top_k_arg ELSE memory_size)
    /\ top_k <= memory_size
    /\ CallMade =>
          /\ Len(last.softmax_score) = Len(last.x)
          /\ \A i \in DOMAIN last.x : Len(last.softmax_score[i]) = top_k

C13_ReinforcedKeepsOccupant ==
    last.op = "query" =>
        \A i \in CorrectRows :
            /\ values[last.y_hat_indices[i]] = last.y[i]
            /\ age[last.y_hat_indices[i]] = 0

\* C13 as amended: ... has age 0, and still holds the row's label unless the
\* replacement step of the same call selected it.
C13_ReinforcedKeepsOccupantUnlessSelected ==
    last.op = "query" =>
        \A i \in CorrectRows :
            /\ age[last.y_hat_indices[i]] = 0
            /\ last.y_hat_indices[i] \notin ReplacedSlots =>
                  /\ values[last.y_hat_indices[i]] = last.y[i]
                  /\ values[last.y_hat_indices[i]] = prev.values[last.y_hat_indices[i]]

\* two correct rows: one reinforces a slot that had aged, one a slot holding
\* a label written by an earlier call
C13_Witness ==
    /\ QueryDone /\ Len(last.x) = 2 /\ CorrectRows = {1, 2}
    /\ \E i \in CorrectRows :
          prev.age[last.y_hat_indices[i]] > 0 /\ age[last.y_hat_indices[i]] = 0
    /\ \E i \in CorrectRows :
          last.y[i] # 0 /\ values[last.y_hat_indices[i]] = last.y[i]

\* C14: the y_hat and the confidence a query returns are those predict(x)
\* returns on the store as it was before the call's update.
C14_ReadsPrecedeWrites ==
    last.op = "query" =>
        \E p \in PredictResults(prev, NoCall, last.x) :
            /\ p.y_hat = last.y_hat
            /\ p.softmax_score = last.softmax_score
            /\ p.topk_indices = last.topk_indices

\* a query whose update changed what predict(x) returns
C14_Witness ==
    /\ QueryDone /\ values # prev.values /\ keys # prev.keys
    /\ \A p \in PredictResults(Store, NoCall, last.x) :
          p.y_hat # last.y_hat /\ p.softmax_score # last.softmax_score

\* a slot's age in the last query call after the global tick and the resets of
\* the reinforced slots, as the replacement step saw it
AgeAtSelection(s) == IF s \in Reinforced THEN 0 ELSE prev.age[s] + 1

\* slot s was older than every other slot by more than the noise can bridge
Stalest(s) ==
    \A t \in Slots \ {s} : AgeAtSelection(s) - AgeAtSelection(t) > 2 * age_noise

\* C15 as stated: in any query call with at least one incorrect row, a slot
\* whose age after tick and resets exceeds every other slot's by more than
\* 2 * age_noise is among the replaced slots, whatever the noise.
C15_StalestIsReplaced ==
    (last.op = "query" /\ IncorrectRows # <<>>) =>
        \A s \in Slots : Stalest(s) => s \in ReplacedSlots

\* C15 as amended: ... in any query call with at least one incorrect row and
\* at most capacity rows ...
C15_StalestIsReplacedWithinCapacity ==
    (last.op = "query" /\ IncorrectRows # <<>> /\ Len(last.x) <= memory_size) =>
        \A s \in Slots : Stalest(s) => s \in ReplacedSlots

\* with noise on, one of two slots is ahead by more than 2 * age_noise when a
\* one-row miss selects a single slot, and it is the slot replaced
C15_Witness ==
    /\ QueryDone /\ IncorrectRows # <<>> /\ Len(last.x) = 1
    /\ memory_size = 2 /\ age_noise = 1
    /\ \E s \in Slots : Stalest(s) /\ ReplacedSlots = {s}

\* every query call made so far completed
AllCompleted == completed = calls

\* C16: after n query calls, all completed, every slot's age is within 0 .. n,
\* and when n >= 1 some slot has age 0.
C16_AgeWithinCalls ==
    AllCompleted =>
        /\ \A s \in Slots : age[s] \in 0 .. completed
        /\ completed >= 1 => \E s \in Slots : age[s] = 0

\* both ends of the range after two calls
C16_Witness ==
    /\ AllCompleted /\ completed = 2
    /\ \E s \in Slots : age[s] = 2
    /\ \E s \in Slots : age[s] = 0

\* C17: a slot's value changes only in the replacement step of a query, and
\* every slot the replacement step overwrites ends the call holding the
\* normalized query and the true label of one and the same batch row.
C17_KeyLabelPairing ==
    /\ \A s \in Slots :
          values[s] # prev.values[s] => (last.op = "query" /\ s \in ReplacedSlots)
    /\ last.op = "query" =>
          \A s \in ReplacedSlots :
              \E i \in DOMAIN last.x :
                  keys[s] = last.q[i] /\ values[s] = last.y[i]

\* two rows with different queries and different labels overwrite two slots
C17_Witness ==
    /\ QueryDone /\ Len(last.x) = 2 /\ Cardinality(ReplacedSlots) = 2
    /\ last.q[1] # last.q[2] /\ last.y[1] # last.y[2]
    /\ \E s \in Slots : values[s] # prev.values[s]
    /\ \E s \in Slots : prev.values[s] # 0

\* a query call that raised in the selection of the replacement step
QueryFailed == last.op = "query" /\ last.status = "error"

\* C18: a query call that fails in the update step because its batch has more
\* rows than the memory has slots leaves keys, values and ages as they were
\* before the call.
C18_FailureAtomic ==
    QueryFailed => keys = prev.keys /\ values = prev.values /\ age = prev.age

====
